---- MODULE Spec2Model ----
(***************************************************************************)
(* Model of the weather cache of weather_app: the TTLCache held by         *)
(* WeatherService and AsyncWeatherService, its JSON snapshot on disk, and  *)
(* the get_weather call of both services; the resolution of the           *)
(* configuration; the credential store; the validation of locations; the   *)
(* commands that own a service instance.                                   *)
(*                                                                         *)
(* Numbers that are floats in the program are integers here, in units of   *)
(* 1/1000 (20540 is 20.54).                                                *)
(***************************************************************************)
EXTENDS Integers, Sequences, FiniteSets, TLC

VARIABLES
    now,            \* the monotonic clock read by the TTLCache timer
    cache_ttl,      \* Config.cache_ttl
    cache_persist,  \* Config.cache_persist
    file,           \* the cache file on disk
    svc,            \* variant of the live service instance: "none", "sync", "async"
    inst,           \* number of service instances constructed so far
    chain,          \* TTLCache: entries in expiry (insertion) order
    links,          \* TTLCache: keys in recency order, first is evicted first
    session,        \* AsyncWeatherService._session: "none", "open", "closed"
    pc,             \* position of the get_weather call: "idle", "hit", "fetch"
    call,           \* the get_weather call in progress
    ncalls,         \* get_weather calls started so far
    inserted,       \* history: per key, time of its last insertion into the live cache, -1 if none
    op,             \* the last completed operation and its outcome
    sessions,       \* aiohttp sessions of the live instance: created so far, open now
    cfg,            \* configuration resolution: its inputs, its stage and the Config object
    keyring,        \* the SecureConfig instance and the OS secret store behind it
    loc,            \* a location string from the user and what the validators made of it
    tasks,          \* get_weather calls running as concurrent tasks on the async instance
    cmd,            \* the command owning the live instance: its kind, its stage, the file it found
    fetched         \* history: per key, the time of its last fetch from the provider

vars == <<now, cache_ttl, cache_persist, file, svc, inst, chain, links, session,
          pc, call, ncalls, inserted, op, sessions, cfg, keyring, loc, tasks, cmd,
          fetched>>

----------------------------------------------------------------------------
(* Bounds *)

\* TTLCache(maxsize=100): the capacity, scaled down
maxsize == 2
\* Config.CACHE_TTL (default 600), scaled down; 0 is what --no-cache sets
TTL == 2
\* the clock runs one tick past the TTL
MaxTime == TTL + 1
MaxCalls == 2
MaxInst == 2
\* get_weather calls that may overlap on one instance
MaxTasks == 2

\* the (location, units) pairs a caller asks for
Requests == {<<"London,GB", "metric">>, <<"Paris,FR", "metric">>,
             <<"London,GB", "imperial">>}

----------------------------------------------------------------------------
(* Python values: None, numbers and strings *)

None == [t |-> "none", n |-> 0, s |-> ""]
Num(x) == [t |-> "num", n |-> x, s |-> ""]
Str(x) == [t |-> "str", n |-> 0, s |-> x]
\* a key that a provider payload does not carry
Absent == [t |-> "absent", n |-> 0, s |-> ""]

\* dict.get(key, default)
Get(v, default) == IF v = Absent THEN default ELSE v

\* round(x, ndigits) on a number in units of 1/1000, ties to even
RoundTo(x, unit) ==
    LET lo == (x \div unit) * unit
        r == x - lo
    IN  IF 2 * r < unit THEN lo
        ELSE IF 2 * r > unit THEN lo + unit
        ELSE IF (lo \div unit) % 2 = 0 THEN lo ELSE lo + unit

Round(v, ndigits) ==
    Num(RoundTo(v.n, IF ndigits = 1 THEN 100 ELSE 10))

\* str.capitalize() on the descriptions the provider sends
Capitalize(v) ==
    CASE v.s = "clear sky" -> Str("Clear sky")
      [] v.s = "light rain" -> Str("Light rain")
      [] OTHER -> v

\* f"{location}:{units}"
CacheKey(location, units) == location \o ":" \o units

PairList == << <<"London,GB", "metric">>, <<"Paris,FR", "metric">>,
               <<"London,GB", "imperial">>, <<"Paris,FR", "imperial">> >>

KeyAt(i) == CacheKey(PairList[i][1], PairList[i][2])

\* every key of the model: the ones asked for and the ones a file can hold
Keys == {KeyAt(i) : i \in 1..Len(PairList)}

----------------------------------------------------------------------------
(* WeatherData *)

Fields == {"city", "units", "status", "detailed_status", "temperature",
           "feels_like", "humidity", "wind_speed", "wind_direction_deg",
           "precipitation_probability", "clouds", "visibility_distance",
           "pressure_hpa", "icon_code"}

\* the only dataclass field with a default
DefaultedFields == {"icon_code"}

\* placeholder where no record is returned
NoRecord == [f \in Fields |-> Absent]

\* provider payloads: the JSON of the HTTP API, and the PyOWM observation
PayloadFull ==
    [main |-> Str("Clear"), description |-> Str("clear sky"), id |-> Num(800),
     temp |-> Num(20540), feels_like |-> Num(21000), humidity |-> Num(65),
     pressure |-> Num(1013), speed |-> Num(3456), deg |-> Num(180),
     pop |-> Absent, clouds |-> Num(0), visibility |-> Num(10000)]

PayloadSparse ==
    [main |-> Str("Rain"), description |-> Str("light rain"), id |-> Num(500),
     temp |-> Num(5250), feels_like |-> Num(4000), humidity |-> Num(90),
     pressure |-> Num(1001), speed |-> Absent, deg |-> Absent,
     pop |-> Absent, clouds |-> Absent, visibility |-> Absent]

PayloadBroken ==
    [main |-> Str("Rain"), description |-> Str("light rain"), id |-> Num(500),
     temp |-> Absent, feels_like |-> Absent, humidity |-> Absent,
     pressure |-> Absent, speed |-> Absent, deg |-> Absent,
     pop |-> Absent, clouds |-> Absent, visibility |-> Absent]

Payloads == {PayloadFull, PayloadSparse, PayloadBroken}

\* AsyncWeatherService._parse_weather_data raises DataParsingError
AsyncParseFails(data) ==
    \/ data.main = Absent \/ data.description = Absent \/ data.id = Absent
    \/ data.temp = Absent \/ data.feels_like = Absent
    \/ data.humidity = Absent \/ data.pressure = Absent

\* AsyncWeatherService._parse_weather_data
AsyncParseWeatherData(location, data, units) ==
    [city |-> Str(location),
     units |-> Str(units),
     status |-> data.main,
     detailed_status |-> Capitalize(data.description),
     temperature |-> Round(data.temp, 1),
     feels_like |-> Round(data.feels_like, 1),
     humidity |-> data.humidity,
     wind_speed |-> Round(Get(data.speed, Num(0)), 2),
     wind_direction_deg |-> Get(data.deg, None),
     precipitation_probability |-> Get(data.pop, None),
     clouds |-> Get(data.clouds, Num(0)),
     visibility_distance |-> Get(data.visibility, None),
     pressure_hpa |-> data.pressure,
     icon_code |-> data.id]

\* WeatherService._parse_weather_data, on the PyOWM weather object
SyncParseWeatherData(location, weather, units) ==
    [city |-> Str(location),
     units |-> Str(units),
     status |-> weather.main,
     detailed_status |-> Capitalize(weather.description),
     temperature |-> Get(weather.temp, Str("N/A")),
     feels_like |-> Get(weather.feels_like, Str("N/A")),
     humidity |-> Get(weather.humidity, None),
     wind_speed |-> Round(Get(weather.speed, Num(0)), 2),
     wind_direction_deg |-> Get(weather.deg, None),
     precipitation_probability |-> Get(weather.pop, None),
     clouds |-> Get(weather.clouds, None),
     visibility_distance |-> Get(weather.visibility, None),
     pressure_hpa |-> Get(weather.pressure, None),
     icon_code |-> weather.id]

----------------------------------------------------------------------------
(* The cache file: json.dump of {key: WeatherData.__dict__}, json.load and  *)
(* WeatherData(dict)                                                    *)

\* json.dump of one Python value
ToJson(v) ==
    CASE v.t = "none" -> [t |-> "null", n |-> 0, s |-> ""]
      [] v.t = "num" -> [t |-> "number", n |-> v.n, s |-> ""]
      [] OTHER -> [t |-> "string", n |-> 0, s |-> v.s]

\* json.load of one JSON value
FromJson(j) ==
    CASE j.t = "null" -> None
      [] j.t = "number" -> Num(j.n)
      [] OTHER -> Str(j.s)

\* a dump that leaves out the fields that are None
DumpRecordSkipNone(rec) == [f \in {g \in Fields : rec[g] # None} |-> ToJson(rec[f])]

\* weather_data.__dict__ as a JSON object
DumpRecord(rec) == [f \in Fields |-> ToJson(rec[f])]

\* one member of the top-level JSON object
FileEntry(key, rec) == [key |-> key, isobj |-> TRUE, obj |-> DumpRecord(rec)]

\* WeatherData from weather_dict raises TypeError
ConstructFails(entry) ==
    \/ ~entry.isobj
    \/ ~(DOMAIN entry.obj \subseteq Fields)
    \/ ~((Fields \ DefaultedFields) \subseteq DOMAIN entry.obj)

\* WeatherData from weather_dict
ConstructRecord(entry) ==
    [f \in Fields |->
        IF f \in DOMAIN entry.obj THEN FromJson(entry.obj[f]) ELSE None]

----------------------------------------------------------------------------
(* cachetools.TTLCache, as the services use it.  A cache is                 *)
(* [chain, links]: chain holds the entries [key, value, expires] in expiry  *)
(* order, links holds the keys in recency order.                            *)

EmptyCache == [chain |-> <<>>, links |-> <<>>]

Range(seq) == {seq[i] : i \in 1..Len(seq)}

CacheKeys(c) == {c.chain[i].key : i \in 1..Len(c.chain)}

EntryOf(c, key) == CHOOSE e \in Range(c.chain) : e.key = key

Without(seq, key) ==
    LET keep(k) == k # key IN SelectSeq(seq, keep)

ChainWithout(ch, key) ==
    LET keep(e) == e.key # key IN SelectSeq(ch, keep)

\* TTLCache.expire: unlink entries from the head of the chain while expired
RECURSIVE Expire(_, _)
Expire(c, time) ==
    IF c.chain # <<>> /\ ~(time < Head(c.chain).expires)
    THEN Expire([chain |-> Tail(c.chain),
                 links |-> Without(c.links, Head(c.chain).key)], time)
    ELSE c

\* TTLCache.popitem: expire, then drop the first key of links
PopItem(c, time) ==
    LET c1 == Expire(c, time)
        key == Head(c1.links)
    IN  [chain |-> ChainWithout(c1.chain, key), links |-> Tail(c1.links)]

\* an insertion that evicts nothing
MakeRoomNone(c, time) == c

\* an insertion that empties a full cache
MakeRoomClear(c, time) == IF Len(c.chain) + 1 > maxsize THEN EmptyCache ELSE c

\* Cache.__setitem__: while self.currsize + size > maxsize: self.popitem()
RECURSIVE MakeRoom(_, _)
MakeRoom(c, time) ==
    IF Len(c.chain) + 1 > maxsize THEN MakeRoom(PopItem(c, time), time) ELSE c

\* a get_weather that forgets to cache what it fetched
SetItemNoStore(c, key, value, time, ttl) == Expire(c, time)

\* TTLCache.__setitem__
SetItem(c, key, value, time, ttl) ==
    LET c1 == Expire(c, time)
        c2 == IF key \in CacheKeys(c1) THEN c1 ELSE MakeRoom(c1, time)
    IN  [chain |-> Append(ChainWithout(c2.chain, key),
                          [key |-> key, value |-> value, expires |-> time + ttl]),
         links |-> Append(Without(c2.links, key), key)]

\* an expiry test that still serves an entry at the instant its TTL has elapsed
ContainsInclusive(c, key, time) ==
    /\ key \in CacheKeys(c)
    /\ time <= EntryOf(c, key).expires

\* TTLCache.__contains__
Contains(c, key, time) ==
    /\ key \in CacheKeys(c)
    /\ time < EntryOf(c, key).expires

\* TTLCache.__getitem__: [cache, found, value]; a held key moves to the end of links
GetItem(c, key, time) ==
    IF key \notin CacheKeys(c)
    THEN [cache |-> c, found |-> FALSE, value |-> NoRecord]
    ELSE LET e == EntryOf(c, key)
             c1 == [chain |-> c.chain, links |-> Append(Without(c.links, key), key)]
         IN  IF time < e.expires
             THEN [cache |-> c1, found |-> TRUE, value |-> e.value]
             ELSE [cache |-> c1, found |-> FALSE, value |-> NoRecord]

\* TTLCache.items(): iterate the chain, skip expired entries, read each value
RECURSIVE ItemsFrom(_, _, _, _)
ItemsFrom(c, i, time, acc) ==
    IF i > Len(c.chain) THEN [cache |-> c, items |-> acc]
    ELSE LET e == c.chain[i]
         IN  IF time < e.expires
             THEN ItemsFrom(GetItem(c, e.key, time).cache, i + 1, time,
                            Append(acc, FileEntry(e.key, e.value)))
             ELSE ItemsFrom(c, i + 1, time, acc)

\* a dump of the stored entries that does not ask whether they have expired
ItemsIncludingExpired(c, time) == ItemsFrom(c, 1, -1, <<>>)

Items(c, time) == ItemsFrom(c, 1, time, <<>>)

Unexpired(c, time) == {e \in Range(c.chain) : time < e.expires}

----------------------------------------------------------------------------
(* Files the program can find on disk *)

RecordAt(i) ==
    AsyncParseWeatherData(PairList[i][1],
                          IF i % 2 = 1 THEN PayloadFull ELSE PayloadSparse,
                          PairList[i][2])

MissingFile == [kind |-> "missing", entries |-> <<>>]
\* open() raises PermissionError
UnreadableFile == [kind |-> "unreadable", entries |-> <<>>]
\* not JSON, e.g. a truncated write
GarbageFile == [kind |-> "garbage", entries |-> <<>>]
\* bytes that are not UTF-8
BadUtf8File == [kind |-> "badutf8", entries |-> <<>>]
\* valid JSON whose top level is a list
NonObjectFile == [kind |-> "nonobject", entries |-> <<>>]

ObjectFile(entries) == [kind |-> "object", entries |-> entries]

\* a snapshot with one entry more than the cache can hold
OversizedFile ==
    ObjectFile([i \in 1..(IF maxsize + 1 < Len(PairList) THEN maxsize + 1 ELSE Len(PairList))
                    |-> FileEntry(KeyAt(i), RecordAt(i))])

\* a valid entry followed by an entry that is a number, not an object
PartlyBadFile ==
    ObjectFile(<<FileEntry(KeyAt(1), RecordAt(1)),
                 [key |-> KeyAt(2), isobj |-> FALSE, obj |-> <<>>]>>)

\* an entry written before icon_code existed
LegacyFile ==
    ObjectFile(<<[key |-> KeyAt(1), isobj |-> TRUE,
                  obj |-> [f \in Fields \ {"icon_code"} |-> ToJson(RecordAt(1)[f])]]>>)

InitialFiles == {MissingFile, UnreadableFile, GarbageFile, BadUtf8File,
                 NonObjectFile, OversizedFile, PartlyBadFile, LegacyFile}

----------------------------------------------------------------------------
(* _load_cache_from_disk and _save_cache_to_disk, the same in both services *)

\* for cache_key, weather_dict in cache_data.items(): ...
RECURSIVE LoadEntries(_, _, _, _, _)
LoadEntries(c, entries, i, time, ttl) ==
    IF i > Len(entries)
    THEN [cache |-> c, err |-> "none", swallowed |-> "none"]
    ELSE IF ConstructFails(entries[i])
    THEN [cache |-> c, err |-> "TypeError", swallowed |-> "none"]
    ELSE LoadEntries(SetItem(c, entries[i].key, ConstructRecord(entries[i]), time, ttl),
                     entries, i + 1, time, ttl)

\* a constructor that does not read the file
LoadCacheFromDiskNothing(c, f, time, ttl) ==
    [cache |-> c, err |-> "none", swallowed |-> "none"]

\* _load_cache_from_disk: err is the exception that escapes, swallowed the one logged
LoadCacheFromDisk(c, f, time, ttl) ==
    CASE f.kind = "missing" -> [cache |-> c, err |-> "none", swallowed |-> "none"]
      [] f.kind = "unreadable" -> [cache |-> c, err |-> "none", swallowed |-> "IOError"]
      [] f.kind = "garbage" -> [cache |-> c, err |-> "none", swallowed |-> "JSONDecodeError"]
      [] f.kind = "badutf8" -> [cache |-> c, err |-> "UnicodeDecodeError", swallowed |-> "none"]
      [] f.kind = "nonobject" -> [cache |-> c, err |-> "AttributeError", swallowed |-> "none"]
      [] OTHER -> LoadEntries(c, f.entries, 1, time, ttl)

\* where a write of the cache file can fail
Faults == {"none", "mkdir", "open", "write"}

\* a save whose except clause does not cover the failure
SaveCacheToDiskRaising(c, f, time, fault) ==
    IF fault = "none"
    THEN [cache |-> Items(c, time).cache, file |-> ObjectFile(Items(c, time).items),
          err |-> "none", swallowed |-> "none"]
    ELSE [cache |-> c, file |-> f, err |-> "IOError", swallowed |-> "none"]

\* _save_cache_to_disk
SaveCacheToDisk(c, f, time, fault) ==
    IF fault = "mkdir"
    THEN [cache |-> c, file |-> f, err |-> "none", swallowed |-> "IOError"]
    ELSE LET it == Items(c, time)
         IN  CASE fault = "open" ->
                    [cache |-> it.cache, file |-> f, err |-> "none", swallowed |-> "IOError"]
               [] fault = "write" ->
                    [cache |-> it.cache, file |-> GarbageFile, err |-> "none",
                     swallowed |-> "IOError"]
               [] OTHER ->
                    [cache |-> it.cache, file |-> ObjectFile(it.items), err |-> "none",
                     swallowed |-> "none"]

----------------------------------------------------------------------------
(* The provider, and the mapping of its outcomes to exceptions *)

Statuses == {"200", "204", "401", "404", "429", "500"}

\* what the HTTP request of the async service can end in
AsyncOutcomes == Statuses \cup {"timeout", "connection"}

\* what weather_manager.weather_at_place of the sync service can end in
SyncOutcomes == {"200", "NotFoundError", "PyOWMError"}

\* a status mapping without the 429 branch
AsyncFetchErrorNoRateLimit(status) ==
    CASE status = "404" -> [outcome |-> "LocationNotFoundError", code |-> ""]
      [] status = "401" -> [outcome |-> "APIRequestError", code |-> ""]
      [] status = "timeout" -> [outcome |-> "NetworkError", code |-> ""]
      [] status = "connection" -> [outcome |-> "NetworkError", code |-> ""]
      [] status # "200" -> [outcome |-> "APIRequestError", code |-> status]
      [] OTHER -> [outcome |-> "ok", code |-> ""]

\* AsyncWeatherService._fetch_weather_data: exception class and status code in the message
AsyncFetchError(status) ==
    CASE status = "404" -> [outcome |-> "LocationNotFoundError", code |-> ""]
      [] status = "401" -> [outcome |-> "APIRequestError", code |-> ""]
      [] status = "429" -> [outcome |-> "RateLimitError", code |-> ""]
      [] status = "timeout" -> [outcome |-> "NetworkError", code |-> ""]
      [] status = "connection" -> [outcome |-> "NetworkError", code |-> ""]
      [] status # "200" -> [outcome |-> "APIRequestError", code |-> status]
      [] OTHER -> [outcome |-> "ok", code |-> ""]

\* WeatherService.get_weather: the except clauses
SyncFetchError(status) ==
    CASE status = "NotFoundError" -> [outcome |-> "LocationNotFoundError", code |-> ""]
      [] status = "PyOWMError" -> [outcome |-> "APIRequestError", code |-> ""]
      [] OTHER -> [outcome |-> "ok", code |-> ""]

----------------------------------------------------------------------------
(* State *)

Cache == [chain |-> chain, links |-> links]

IdleCall == [location |-> "", units |-> "", key |-> "", reqs |-> 0]

\* an operation other than get_weather, with the exception that escaped it
\* and the one it logged and swallowed
Op(name, err, swallowed) ==
    [name |-> name, err |-> err, swallowed |-> swallowed, key |-> "",
     status |-> "", code |-> "", value |-> NoRecord, reqs |-> 0]

\* a request that ended in a rate-limit error is issued once more
RetriesOnRateLimit(err) == IF err = "RateLimitError" THEN 1 ELSE 0

\* requests issued after the first one: _fetch_weather_data and the sync
\* get_weather raise on a failed request, neither has a loop around it
Retries(err) == 0

\* a completed get_weather call: provider outcome, exception raised and the
\* status code in its message, record returned, provider requests issued
Completed(status, err, code, value) ==
    [name |-> "get_weather", err |-> err, swallowed |-> "none", key |-> call.key,
     status |-> status, code |-> code, value |-> value,
     reqs |-> call.reqs + Retries(err)]

NeverInserted == [k \in Keys |-> -1]

\* the history of provider fetches is kept only where a property reads it
NotTracked == [k \in Keys |-> -2]

\* the history after a successful provider fetch of key at time
Fetched(h, key, time) == IF h = NotTracked THEN h ELSE [h EXCEPT ![key] = time]

\* self._session = None at construction: no session created, none open
NoSessions == [created |-> 0, open |-> 0]

\* a session is created for every request, whatever the state of self._session
EnsureSessionAlwaysNew(s, n) ==
    [session |-> "open", sessions |-> [created |-> n.created + 1, open |-> n.open + 1]]

\* _ensure_session: create a session if there is none or it is closed
EnsureSession(s, n) ==
    IF s = "none" \/ s = "closed"
    THEN [session |-> "open",
          sessions |-> [created |-> n.created + 1, open |-> n.open + 1]]
    ELSE [session |-> s, sessions |-> n]

\* close() leaves the session as it is
CloseSessionNever(s, n) == [session |-> s, sessions |-> n]

\* close(): close the session if there is one and it is not closed
CloseSession(s, n) ==
    IF s = "open"
    THEN [session |-> "closed", sessions |-> [created |-> n.created, open |-> n.open - 1]]
    ELSE [session |-> s, sessions |-> n]

\* the fetched record is stored whether or not the fetch raised
StoreFetchedAnyway(c, err, key, value, time, ttl) == SetItem(c, key, value, time, ttl)

\* get_weather: self.cache[cache_key] = weather_data follows the fetch inside
\* the try block, so it runs only when the fetch and the parse did not raise
StoreFetched(c, err, key, value, time, ttl) ==
    IF err = "ok" THEN SetItem(c, key, value, time, ttl) ELSE c

\* no configuration is being resolved
NoConfig == [stage |-> "none"]

\* no SecureConfig is being constructed
NoKeyring == [stage |-> "none"]

\* no location has been entered
NoLocation == [input |-> ""]

\* no command is running
NoCommand == [kind |-> "none", stage |-> "none", file0 |-> MissingFile]

\* the concurrent tasks, none of them started
NoTasks == [i \in 1..MaxTasks |-> [pc |-> "idle", location |-> "", units |-> "",
                                   key |-> "", at |-> 0, err |-> "none"]]

Init ==
    /\ now = 0
    /\ cache_ttl \in {0, TTL}
    /\ cache_persist \in BOOLEAN
    /\ file \in (IF cache_persist THEN InitialFiles ELSE {MissingFile})
    /\ svc = "none"
    /\ inst = 0
    /\ chain = <<>>
    /\ links = <<>>
    /\ session = "none"
    /\ pc = "idle"
    /\ call = IdleCall
    /\ ncalls = 0
    /\ inserted = NeverInserted
    /\ op = Op("init", "none", "none")
    /\ sessions = NoSessions
    /\ cfg = NoConfig
    /\ keyring = NoKeyring
    /\ loc = NoLocation
    /\ tasks = NoTasks
    /\ cmd = NoCommand
    /\ fetched = NotTracked

\* the clock advances
Tick ==
    /\ now < MaxTime
    /\ now' = now + 1
    /\ UNCHANGED <<cache_ttl, cache_persist, fetched, cmd, tasks, loc, keyring, file,
                   svc, inst, chain, links, session, pc, call, ncalls, inserted, op,
                   sessions, cfg>>

\* WeatherService.__init__ / AsyncWeatherService.__init__
Construct(variant) ==
    /\ svc = "none"
    /\ inst < MaxInst
    /\ LET r == IF cache_persist
                THEN LoadCacheFromDisk(EmptyCache, file, now, cache_ttl)
                ELSE [cache |-> EmptyCache, err |-> "none", swallowed |-> "none"]
           ok == r.err = "none"
       IN  /\ svc' = IF ok THEN variant ELSE "none"
           /\ chain' = IF ok THEN r.cache.chain ELSE <<>>
           /\ links' = IF ok THEN r.cache.links ELSE <<>>
           /\ inserted' = [k \in Keys |->
                             IF ok /\ cache_persist /\ file.kind = "object"
                                /\ \E i \in 1..Len(file.entries) : file.entries[i].key = k
                             THEN now ELSE -1]
           /\ op' = Op("construct", r.err, r.swallowed)
    /\ inst' = inst + 1
    /\ session' = "none"
    /\ sessions' = NoSessions
    /\ UNCHANGED <<now, cache_ttl, cache_persist, fetched, cmd, tasks, loc, keyring,
                   file, pc, call, ncalls, cfg>>

\* get_weather up to the cache test: a hit goes on to read the entry, a miss
\* issues the provider request (the async service opens its session first)
GetWeatherStart(location, units) ==
    /\ svc # "none"
    /\ pc = "idle"
    /\ ncalls < MaxCalls
    /\ ncalls' = ncalls + 1
    /\ LET cache_key == CacheKey(location, units)
           hit == Contains(Cache, cache_key, now)
       IN  /\ pc' = IF hit THEN "hit" ELSE "fetch"
           /\ call' = [location |-> location, units |-> units, key |-> cache_key,
                       reqs |-> IF hit THEN 0 ELSE 1]
           /\ session' = IF ~hit /\ svc = "async"
                         THEN EnsureSession(session, sessions).session ELSE session
           /\ sessions' = IF ~hit /\ svc = "async"
                          THEN EnsureSession(session, sessions).sessions ELSE sessions
    /\ UNCHANGED <<now, cache_ttl, cache_persist, fetched, cmd, tasks, loc, keyring,
                   file, svc, inst, chain, links, inserted, op, cfg>>

\* get_weather on a hit: return self.cache[cache_key]
GetWeatherReturnCached ==
    /\ pc = "hit"
    /\ LET r == GetItem(Cache, call.key, now)
       IN  /\ chain' = r.cache.chain
           /\ links' = r.cache.links
           /\ op' = IF r.found
                    THEN Completed("", "none", "", r.value)
                    ELSE Completed("", "KeyError", "", NoRecord)
    /\ pc' = "idle"
    /\ call' = IdleCall
    /\ UNCHANGED <<now, cache_ttl, cache_persist, fetched, cmd, tasks, loc, keyring,
                   file, svc, inst, session, ncalls, inserted, sessions, cfg>>

\* get_weather on a miss, from the provider's answer on: parse and cache, or raise
GetWeatherFetched(status, data) ==
    /\ pc = "fetch"
    /\ status \in (IF svc = "async" THEN AsyncOutcomes ELSE SyncOutcomes)
    /\ LET e == IF svc = "async" THEN AsyncFetchError(status) ELSE SyncFetchError(status)
           unparsed == e.outcome = "ok" /\ svc = "async" /\ AsyncParseFails(data)
           err == IF unparsed THEN "DataParsingError" ELSE e.outcome
           value == IF svc = "async"
                    THEN AsyncParseWeatherData(call.location, data, call.units)
                    ELSE SyncParseWeatherData(call.location, data, call.units)
           c == StoreFetched(Cache, err, call.key, value, now, cache_ttl)
       IN  /\ chain' = c.chain
           /\ links' = c.links
           /\ IF err = "ok"
              THEN /\ inserted' = [inserted EXCEPT ![call.key] = now]
                   /\ fetched' = Fetched(fetched, call.key, now)
                   /\ op' = Completed(status, "none", "", value)
              ELSE /\ UNCHANGED <<inserted, fetched>>
                   /\ op' = Completed(status, err, e.code, NoRecord)
    /\ pc' = "idle"
    /\ call' = IdleCall
    /\ UNCHANGED <<now, cache_ttl, cache_persist, cmd, tasks, loc, keyring, file, svc,
                   inst, session, ncalls, sessions, cfg>>

\* the task awaiting AsyncWeatherService.get_weather is cancelled while the
\* request is in flight: CancelledError leaves through both except clauses
GetWeatherCancelled ==
    /\ pc = "fetch"
    /\ svc = "async"
    /\ op' = Completed("cancelled", "CancelledError", "", NoRecord)
    /\ pc' = "idle"
    /\ call' = IdleCall
    /\ UNCHANGED <<now, cache_ttl, cache_persist, fetched, cmd, tasks, loc, keyring,
                   file, svc, inst, chain, links, session, ncalls, inserted, sessions,
                   cfg>>

\* AsyncWeatherService.save_cache
SaveCache(fault) ==
    /\ svc = "async"
    /\ pc = "idle"
    /\ LET r == IF cache_persist
                THEN SaveCacheToDisk(Cache, file, now, fault)
                ELSE [cache |-> Cache, file |-> file, err |-> "none", swallowed |-> "none"]
       IN  /\ chain' = r.cache.chain
           /\ links' = r.cache.links
           /\ file' = r.file
           /\ op' = Op("save_cache", r.err, r.swallowed)
    /\ UNCHANGED <<now, cache_ttl, cache_persist, fetched, cmd, tasks, loc, keyring,
                   svc, inst, session, pc, call, ncalls, inserted, sessions, cfg>>

\* AsyncWeatherService.close
Close(fault) ==
    /\ svc = "async"
    /\ pc = "idle"
    /\ session' = CloseSession(session, sessions).session
    /\ sessions' = CloseSession(session, sessions).sessions
    /\ LET r == IF cache_persist
                THEN SaveCacheToDisk(Cache, file, now, fault)
                ELSE [cache |-> Cache, file |-> file, err |-> "none", swallowed |-> "none"]
       IN  /\ chain' = r.cache.chain
           /\ links' = r.cache.links
           /\ file' = r.file
           /\ op' = Op("close", r.err, r.swallowed)
    /\ UNCHANGED <<now, cache_ttl, cache_persist, fetched, cmd, tasks, loc, keyring,
                   svc, inst, pc, call, ncalls, inserted, cfg>>

\* the instance is destroyed: WeatherService.__del__ saves, AsyncWeatherService.__del__ does nothing
Del(fault) ==
    /\ svc # "none"
    /\ pc = "idle"
    /\ LET r == IF svc = "sync" /\ cache_persist
                THEN SaveCacheToDisk(Cache, file, now, fault)
                ELSE [cache |-> Cache, file |-> file, err |-> "none", swallowed |-> "none"]
       IN  /\ file' = r.file
           /\ op' = Op("del", r.err, r.swallowed)
    /\ svc' = "none"
    /\ chain' = <<>>
    /\ links' = <<>>
    /\ inserted' = NeverInserted
    /\ UNCHANGED <<now, cache_ttl, cache_persist, fetched, cmd, tasks, loc, keyring,
                   inst, session, pc, call, ncalls, sessions, cfg>>

Next ==
    \/ Tick
    \/ \E variant \in {"sync", "async"} : Construct(variant)
    \/ \E r \in Requests : GetWeatherStart(r[1], r[2])
    \/ GetWeatherReturnCached
    \/ \E status \in AsyncOutcomes \cup SyncOutcomes, data \in Payloads :
          GetWeatherFetched(status, data)
    \/ GetWeatherCancelled
    \/ \E fault \in Faults : SaveCache(fault)
    \/ \E fault \in Faults : Close(fault)
    \/ \E fault \in Faults : Del(fault)

Spec == Init /\ [][Next]_vars

\* the services without persistence, every provider outcome
InitCalls == Init /\ ~cache_persist

SpecCalls == InitCalls /\ [][Next]_vars

\* the services with persistence; the provider answers or reports no such place
NextPersist ==
    \/ Tick
    \/ \E variant \in {"sync", "async"} : Construct(variant)
    \/ \E r \in Requests : GetWeatherStart(r[1], r[2])
    \/ GetWeatherReturnCached
    \/ \E status \in {"200", "404", "NotFoundError"}, data \in {PayloadFull, PayloadSparse} :
          GetWeatherFetched(status, data)
    \/ GetWeatherCancelled
    \/ \E fault \in Faults : SaveCache(fault)
    \/ \E fault \in Faults : Close(fault)
    \/ \E fault \in Faults : Del(fault)

\* the files a cold start, a damaged file and an overfull snapshot give
PersistFiles == {MissingFile, GarbageFile, BadUtf8File, NonObjectFile,
                 PartlyBadFile, OversizedFile}

InitPersist == Init /\ cache_persist /\ file \in PersistFiles

SpecPersist == InitPersist /\ [][NextPersist]_vars

\* the async service alone, with and without persistence; the provider
\* answers or the request times out
NextSession ==
    \/ Tick
    \/ Construct("async")
    \/ \E r \in Requests : GetWeatherStart(r[1], r[2])
    \/ GetWeatherReturnCached
    \/ \E status \in {"200", "timeout"} : GetWeatherFetched(status, PayloadFull)
    \/ GetWeatherCancelled
    \/ \E fault \in Faults : SaveCache(fault)
    \/ \E fault \in Faults : Close(fault)
    \/ \E fault \in Faults : Del(fault)

InitSession == Init /\ file \in {MissingFile, GarbageFile}

SpecSession == InitSession /\ [][NextSession]_vars

----------------------------------------------------------------------------
(* Properties *)

\* steps of the model, told by what they change
CallStarts == pc = "idle" /\ pc' # "idle"
CallCompletes == pc # "idle" /\ pc' = "idle"

\* C1: two consecutive get_weather(L, U) calls on one instance, both within the
\* TTL window of the insertion the first call made or was served from, issue at
\* most one provider request in total, and the second returns a record equal to
\* the one the first returned.
C1_ConsecutiveCallsShareOneFetch ==
    [][(/\ CallCompletes
        /\ op.name = "get_weather"
        /\ op.err = "none"
        /\ op.key = call.key
        /\ inserted[call.key] >= 0
        /\ now - inserted[call.key] < cache_ttl)
       => (/\ op.reqs + op'.reqs <= 1
           /\ op'.err = "none"
           /\ op'.value = op.value)]_vars

\* a second call served from the cache after the clock has moved, inside the window
C1_Witness ==
    /\ op.name = "get_weather"
    /\ op.err = "none"
    /\ op.reqs = 0
    /\ ncalls = 2
    /\ now > inserted[op.key]
    /\ now - inserted[op.key] < cache_ttl

\* C2: a lookup of key K is a miss whenever K was never inserted or
\* now - insertion_time(K) >= ttl, stored or not, so the get_weather call made
\* then issues a provider request; it is a hit only while
\* now - insertion_time(K) < ttl.
C2_ExpiredIsMiss ==
    [][CallStarts =>
        /\ (inserted[call'.key] < 0 \/ now - inserted[call'.key] >= cache_ttl)
              => (pc' = "fetch" /\ call'.reqs = 1)
        /\ pc' = "hit"
              => (inserted[call'.key] >= 0 /\ now - inserted[call'.key] < cache_ttl)]_vars

\* a call that goes to the provider for a key whose expired entry is still stored
C2_Witness ==
    /\ pc = "fetch"
    /\ cache_ttl > 0
    /\ call.key \in CacheKeys(Cache)
    /\ now - inserted[call.key] >= cache_ttl

\* the statuses outside 2xx
NonSuccess == Statuses \ {"200", "204"}

\* a completed call of the async service that went to the provider
AsyncMiss == op.name = "get_weather" /\ svc = "async" /\ op.reqs = 1

----------------------------------------------------------------------------
(* Properties of the cache with persistence *)

\* C3: the number of resident cache entries never exceeds the configured
\* maximum, after any get_weather calls and after loading a snapshot that holds
\* more entries than the maximum.
C3_SizeBounded ==
    /\ Len(chain) <= maxsize
    /\ Cardinality(CacheKeys(Cache)) = Len(chain)

\* an instance that has loaded a snapshot longer than the cache and is full
C3_Witness ==
    /\ op.name = "construct"
    /\ op.err = "none"
    /\ file.kind = "object"
    /\ Len(file.entries) > maxsize
    /\ Len(chain) = maxsize

\* get_weather stores the record it fetched
InsertStep == pc = "fetch" /\ pc' = "idle" /\ op'.err = "none"

\* C4: when the cache holds the maximum number of unexpired entries and a record
\* is inserted under a key that is not resident, exactly one resident entry is
\* removed and the new key is resident afterwards.
C4_FullCacheEvictsExactlyOne ==
    [][(/\ InsertStep
        /\ Cardinality(Unexpired(Cache, now)) = maxsize
        /\ call.key \notin CacheKeys(Cache))
       => (/\ Cardinality(CacheKeys(Cache) \ CacheKeys(Cache')) = 1
           /\ call.key \in CacheKeys(Cache')
           /\ Cardinality(CacheKeys(Cache')) = maxsize)]_vars

\* a fetch has just been stored in a full cache, and a key whose TTL has not
\* elapsed is gone
C4_Witness ==
    /\ op.name = "get_weather"
    /\ op.err = "none"
    /\ op.reqs = 1
    /\ Len(chain) = maxsize
    /\ \A e \in Range(chain) : now < e.expires
    /\ \E k \in Keys \ CacheKeys(Cache) :
          inserted[k] >= 0 /\ now - inserted[k] < cache_ttl

SavedSnapshot ==
    /\ file.kind = "object"
    /\ Len(file.entries) <= maxsize
    /\ \A i \in 1..Len(file.entries) : ~ConstructFails(file.entries[i])

InFile(key) == \E i \in 1..Len(file.entries) : file.entries[i].key = key

FileObj(key) == (CHOOSE e \in Range(file.entries) : e.key = key).obj

FreshFromSnapshot == op.name = "construct" /\ op.err = "none" /\ SavedSnapshot

SaveStep ==
    /\ now' = now
    /\ pc = "idle"
    /\ pc' = "idle"
    /\ cache_persist
    /\ \/ op'.name \in {"save_cache", "close"}
       \/ op'.name = "del" /\ svc = "sync"

\* C7: the snapshot a save writes holds exactly the entries that are unexpired
\* at the moment of the save.
C7_SnapshotIsTheUnexpiredEntries ==
    [][(SaveStep /\ op'.swallowed = "none")
       => (/\ file'.kind = "object"
           /\ Range(file'.entries)
                 = {FileEntry(e.key, e.value) : e \in Unexpired(Cache, now)}
           /\ Len(file'.entries) = Cardinality(Unexpired(Cache, now)))]_vars

\* a save has written one of two stored entries, the other had expired
C7_Witness ==
    /\ op.name \in {"save_cache", "close"}
    /\ op.swallowed = "none"
    /\ file.kind = "object"
    /\ Len(file.entries) = 1
    /\ Len(chain) = 2
    /\ \E e \in Range(chain) : ~(now < e.expires)
    /\ \E e \in Range(chain) : now < e.expires /\ file.entries[1].key = e.key

\* the file cannot be turned into records
CorruptFile ==
    \/ file.kind \in {"garbage", "badutf8", "nonobject"}
    \/ file.kind = "object" /\ \E i \in 1..Len(file.entries) : ConstructFails(file.entries[i])

\* C8: constructing a service with persistence enabled never fails because of
\* the cache file; with a missing or a corrupt file the constructor completes
\* and the cache is empty.
C8_StartupSurvivesBadFile ==
    (op.name = "construct" /\ cache_persist)
       => (/\ op.err = "none"
           /\ svc # "none"
           /\ (file.kind = "missing" \/ CorruptFile) => chain = <<>>)

----------------------------------------------------------------------------
(* Errors as the one-shot command reports them *)

\* exceptions.py: ConfigurationError and its subclass
ConfigurationErrors == {"ConfigurationError", "APIKeyError"}

\* exceptions.py: APIRequestError and its subclasses
APIRequestErrors == {"APIRequestError", "NetworkError", "RateLimitError"}

\* weather_command: the except clauses, in their order
CliException(err) ==
    CASE err = "LocationNotFoundError" -> "LocationClickException"
      [] err \in ConfigurationErrors -> "ConfigurationClickException"
      [] err \in APIRequestErrors \cup {"DataParsingError"} -> "APIClickException"
      [] OTHER -> "ClickException"

\* C11: a provider response with status 401 surfaces from get_weather as an
\* error of the configuration class, and the one-shot command reports it as a
\* configuration error, not as a generic API request failure.
C11_UnauthorizedIsConfigurationError ==
    (op.name = "get_weather" /\ op.status = "401")
       => (/\ op.err \in ConfigurationErrors
           /\ CliException(op.err) = "ConfigurationClickException")

----------------------------------------------------------------------------
(* Properties of a single get_weather call *)

\* C12: whenever a get_weather call ends in an error (404, 401, 429, another
\* non-2xx status, timeout, connection failure, unparseable payload) or is
\* cancelled while waiting for the provider, the cache keys and the record
\* stored under every key are the same as before the call.
C12_FailedCallLeavesCacheUnchanged ==
    [][(pc' # "idle" \/ (CallCompletes /\ op'.err # "none"))
       => Range(chain') = Range(chain)]_vars

\* a call for a key whose expired entry is still stored was cancelled, the
\* entry is still there
C12_Witness ==
    /\ op.name = "get_weather"
    /\ op.err = "CancelledError"
    /\ cache_ttl > 0
    /\ op.key \in CacheKeys(Cache)
    /\ now - inserted[op.key] >= cache_ttl

----------------------------------------------------------------------------
(* Properties of the connection session of the async service *)

\* C14: an AsyncWeatherService creates no session at construction or on a cache
\* hit; the first miss creates one, and every later miss, also after a failed
\* request, reuses it as long as it is open; at any time the instance owns at
\* most one open session.
C14_OneLazySession ==
    [][/\ sessions'.open <= 1
       /\ (session' = "open") <=> (sessions'.open = 1)
       /\ op'.name = "construct" /\ op' # op
             => (session' = "none" /\ sessions'.created = 0)
       /\ (CallStarts /\ svc = "async") =>
             /\ pc' = "hit" => (session' = session /\ sessions' = sessions)
             /\ (pc' = "fetch" /\ session = "open")
                   => (session' = "open" /\ sessions' = sessions)
             /\ (pc' = "fetch" /\ session # "open")
                   => (session' = "open" /\ sessions'.created = sessions.created + 1)]_vars

\* the second miss of an instance, after a request that failed, runs on the
\* session the first miss created
C14_Witness ==
    /\ svc = "async"
    /\ pc = "fetch"
    /\ ncalls = 2
    /\ op.name = "get_weather"
    /\ op.err = "NetworkError"
    /\ session = "open"
    /\ sessions.created = 1

\* a step that runs close()
CloseStep ==
    /\ op'.name = "close"
    /\ now' = now
    /\ pc = "idle"
    /\ pc' = "idle"
    /\ svc' = svc

----------------------------------------------------------------------------
(* Configuration resolution: Config(), the keyring, the command-line         *)
(* overrides.  Values are the Python values above, with booleans.           *)

Bool(b) == [t |-> "bool", n |-> IF b THEN 1 ELSE 0, s |-> ""]

\* bool(v) of a Python value
Truthy(v) ==
    CASE v.t = "none" -> FALSE
      [] v.t = "absent" -> FALSE
      [] v.t = "str" -> v.s # ""
      [] OTHER -> v.n # 0

\* str.lower(), on the strings of the model
Lower(str) == IF str \in {"true", "True", "TRUE"} THEN "true" ELSE str

\* the fields of Config that are modelled
Settings == {"OWM_API_KEY", "OWM_UNITS", "CACHE_TTL", "USE_ASYNC", "LOG_LEVEL",
             "CACHE_PERSIST"}

\* the fields with the _parse_bool validator
BoolFields == {"USE_ASYNC", "CACHE_PERSIST"}

\* Field(default=...)
Defaults ==
    [OWM_API_KEY |-> None, OWM_UNITS |-> Str("metric"), CACHE_TTL |-> Num(600),
     USE_ASYNC |-> Bool(TRUE), LOG_LEVEL |-> Str("INFO"),
     CACHE_PERSIST |-> Bool(FALSE)]

\* Config._parse_bool
ParseBool(v) ==
    CASE v.t = "bool" -> v
      [] v.t = "str" -> Bool(Lower(v.s) = "true")
      [] OTHER -> Bool(Truthy(v))

\* a source that defines no setting
NoSettings == [f \in Settings |-> Absent]

\* the environment variables read by BaseSettings, validated field by field
EnvSettings(env) ==
    [f \in Settings |->
        IF env[f] = Absent THEN Absent
        ELSE IF f \in BoolFields THEN ParseBool(env[f]) ELSE env[f]]

\* super().__init__(): the sources of BaseSettings are the init arguments (none
\* here), the environment and the field defaults.  customise_sources and
\* _yaml_settings_source are never called: the hook BaseSettings calls is named
\* settings_customise_sources, so .weather.yaml (yaml) is not read.
BuildSettings(env, yaml) ==
    [f \in Settings |->
        IF EnvSettings(env)[f] # Absent THEN EnvSettings(env)[f] ELSE Defaults[f]]

\* the system keyring: not available, failing on a read, or holding key
\* (None when nothing is stored)
Stores ==
    {[state |-> "unavailable", key |-> None],
     [state |-> "error", key |-> Str("storekey")],
     [state |-> "ok", key |-> None],
     [state |-> "ok", key |-> Str("")],
     [state |-> "ok", key |-> Str("storekey")]}

\* SecureConfig.get_api_key
GetApiKey(store) ==
    CASE store.state = "unavailable" -> [raised |-> "KeyringUnavailableError", key |-> None]
      [] store.state = "error" -> [raised |-> "SecurityError", key |-> None]
      [] OTHER -> [raised |-> "none", key |-> store.key]

\* Config.__init__: the settings of BaseSettings, then the key of the keyring
\* if it holds one; err is the exception that leaves the constructor
ConfigInit(env, yaml, store) ==
    LET fields == BuildSettings(env, yaml)
        k == GetApiKey(store)
    IN  IF k.raised = "SecurityError"
        THEN [err |-> "SecurityError", fields |-> fields, api_key |-> None]
        ELSE IF k.raised = "none" /\ Truthy(k.key)
        THEN [err |-> "none",
              fields |-> [fields EXCEPT !["OWM_API_KEY"] = k.key],
              api_key |-> k.key]
        ELSE [err |-> "none", fields |-> fields, api_key |-> fields["OWM_API_KEY"]]

\* _load_custom_config_file: every key of the file is set on the Config
LoadCustomConfigFile(config, data) ==
    [config EXCEPT !.fields =
        [f \in Settings |-> IF data[f] # Absent THEN data[f] ELSE config.fields[f]]]

\* the entries of field_map that the command-line group passes in ctx.obj
FieldMap == [units |-> "OWM_UNITS", use_async |-> "USE_ASYNC"]

\* apply_cli_overrides: the mapped options that are not None, then verbose,
\* no_cache and config_file, in this order
ApplyCliOverrides(config, cli) ==
    LET mapped == [config EXCEPT !.fields =
                     [f \in Settings |->
                        IF \E o \in DOMAIN FieldMap : FieldMap[o] = f /\ cli[o] # None
                        THEN cli[CHOOSE o \in DOMAIN FieldMap : FieldMap[o] = f]
                        ELSE config.fields[f]]]
        verbose == IF Truthy(cli.verbose)
                   THEN [mapped EXCEPT !.fields["LOG_LEVEL"] = Str("DEBUG")]
                   ELSE mapped
        no_cache == IF Truthy(cli.no_cache)
                    THEN [verbose EXCEPT !.fields["CACHE_TTL"] = Num(0)]
                    ELSE verbose
    IN  IF cli.config_file # NoSettings
        THEN LoadCustomConfigFile(no_cache, cli.config_file)
        ELSE no_cache

\* get_config_from_context: Config(), then the overrides of ctx.obj
ConfigFromContext(env, yaml, store, cli) ==
    LET c == ConfigInit(env, yaml, store)
    IN  IF c.err # "none" THEN c ELSE ApplyCliOverrides(c, cli)

\* strings a boolean environment variable is given as
BoolStrings == {"true", "True", "TRUE", "1", "yes", "", "false"}

\* the process environment
Environments ==
    {[NoSettings EXCEPT !["OWM_API_KEY"] = key, !["OWM_UNITS"] = units,
                        !["USE_ASYNC"] = use_async, !["CACHE_PERSIST"] = cache_persist_] :
        key \in {Absent, Str("envkey")},
        units \in {Absent, Str("standard")},
        use_async \in {Absent} \cup {Str(b) : b \in BoolStrings},
        cache_persist_ \in {Absent, Str("True"), Str("yes")}}

\* a YAML configuration file, its keys in upper case
YamlFile ==
    [NoSettings EXCEPT !["OWM_API_KEY"] = Str("filekey"), !["OWM_UNITS"] = Str("imperial"),
                       !["CACHE_TTL"] = Num(60), !["USE_ASYNC"] = Bool(TRUE),
                       !["LOG_LEVEL"] = Str("WARNING")]

\* ctx.obj as the cli group fills it: flags are False when not given, units
\* is None when not given, config_file defines nothing when not given
CommandLines ==
    [verbose : {Bool(FALSE), Bool(TRUE)},
     config_file : {NoSettings, YamlFile},
     units : {None, Str("metric")},
     use_async : {Bool(FALSE), Bool(TRUE)},
     no_cache : {Bool(FALSE), Bool(TRUE)}]

\* before a configuration is resolved: the inputs, no Config object yet
ConfigInputs ==
    [stage : {"start"}, env : Environments, yaml : {NoSettings, YamlFile},
     store : Stores, cli : CommandLines,
     config : {[err |-> "none", fields |-> NoSettings, api_key |-> Absent]}]

\* Config()
NewConfig ==
    /\ cfg.stage = "start"
    /\ cfg' = [cfg EXCEPT !.stage = "config",
                          !.config = ConfigInit(cfg.env, cfg.yaml, cfg.store)]
    /\ UNCHANGED <<now, cache_ttl, cache_persist, fetched, cmd, tasks, loc, keyring,
                   file, svc, inst, chain, links, session, pc, call, ncalls, inserted,
                   op, sessions>>

\* get_config_from_context(ctx)
GetConfigFromContext ==
    /\ cfg.stage = "start"
    /\ cfg' = [cfg EXCEPT !.stage = "context",
                          !.config = ConfigFromContext(cfg.env, cfg.yaml, cfg.store, cfg.cli)]
    /\ UNCHANGED <<now, cache_ttl, cache_persist, fetched, cmd, tasks, loc, keyring,
                   file, svc, inst, chain, links, session, pc, call, ncalls, inserted,
                   op, sessions>>

\* the configuration is resolved before any service exists
InitConfig ==
    /\ now = 0
    /\ cache_ttl = TTL
    /\ cache_persist = FALSE
    /\ file = MissingFile
    /\ svc = "none"
    /\ inst = 0
    /\ chain = <<>>
    /\ links = <<>>
    /\ session = "none"
    /\ pc = "idle"
    /\ call = IdleCall
    /\ ncalls = 0
    /\ inserted = NeverInserted
    /\ op = Op("init", "none", "none")
    /\ sessions = NoSessions
    /\ cfg \in ConfigInputs
    /\ keyring = NoKeyring
    /\ loc = NoLocation
    /\ tasks = NoTasks
    /\ cmd = NoCommand
    /\ fetched = NotTracked

NextConfig == NewConfig \/ GetConfigFromContext

SpecConfig == InitConfig /\ [][NextConfig]_vars

----------------------------------------------------------------------------
(* Properties of the configuration resolution *)

\* a Config came out of the command-line path / out of Config() alone
FromContext == cfg.stage = "context" /\ cfg.config.err = "none"
FromConfig == cfg.stage = "config" /\ cfg.config.err = "none"

\* what the command line gives for a setting, Absent if its option was not given
CliValue(f) ==
    CASE f = "OWM_UNITS" /\ cfg.cli.units # None -> cfg.cli.units
      [] f = "USE_ASYNC" /\ cfg.cli.use_async = Bool(TRUE) -> Bool(TRUE)
      [] f = "CACHE_TTL" /\ cfg.cli.no_cache = Bool(TRUE) -> Num(0)
      [] f = "LOG_LEVEL" /\ cfg.cli.verbose = Bool(TRUE) -> Str("DEBUG")
      [] OTHER -> Absent

\* the configuration file in force: the one given with --config-file, else
\* the one found at the fixed places
FileInForce == IF cfg.cli.config_file # NoSettings THEN cfg.cli.config_file ELSE cfg.yaml

\* the first of the values that is defined
FirstDefined(values) ==
    LET defined == {i \in 1..Len(values) : values[i] # Absent}
    IN  values[CHOOSE i \in defined : \A j \in defined : i <= j]

\* C16: for every setting the resolved value obeys CLI override > environment
\* variable > configuration file > default, also when the configuration file
\* is the one given with --config-file.
C16_PrecedenceChain ==
    FromContext =>
        \A f \in Settings \ {"OWM_API_KEY"} :
            cfg.config.fields[f]
               = FirstDefined(<<CliValue(f), EnvSettings(cfg.env)[f],
                                FileInForce[f], Defaults[f]>>)

\* C17: applying the command-line overrides changes only the settings whose
\* option was given; for an option that was not given (the flags --use-async,
\* --no-cache and --verbose included) the setting keeps the value that
\* Config() resolved.
C17_OnlyGivenOptionsOverride ==
    FromContext =>
        \A f \in Settings :
            (CliValue(f) = Absent /\ cfg.cli.config_file[f] = Absent)
               => cfg.config.fields[f]
                     = ConfigInit(cfg.env, cfg.yaml, cfg.store).fields[f]

\* C18: a boolean setting given as a string is true only for the exact string
\* "true"; "True", "TRUE", "1", "yes", "" and any other string give false.
C18_OnlyLowercaseTrue ==
    FromConfig =>
        \A f \in BoolFields :
            cfg.env[f] # Absent => cfg.config.fields[f] = Bool(cfg.env[f].s = "true")

\* the keyring is available and holds a non-empty key
StoreHoldsKey == cfg.store.state = "ok" /\ Truthy(cfg.store.key)

\* the keyring is not available, or it holds no key
StoreHoldsNothing ==
    cfg.store.state = "unavailable" \/ (cfg.store.state = "ok" /\ ~Truthy(cfg.store.key))

\* the API key the environment supplies, else the one the configuration file supplies
EnvOrFileKey ==
    FirstDefined(<<cfg.env["OWM_API_KEY"],
                   IF cfg.stage = "context" THEN FileInForce["OWM_API_KEY"]
                   ELSE cfg.yaml["OWM_API_KEY"],
                   None>>)

\* C19: when the secure store is available and holds a non-empty key, api_key
\* is that key whatever the environment or the configuration file supply; when
\* the store is unavailable or holds no key, api_key is the environment/file
\* value.
C19_StoreKeyFirst ==
    (FromConfig \/ FromContext) =>
        /\ StoreHoldsKey => cfg.config.api_key = cfg.store.key
        /\ StoreHoldsNothing => cfg.config.api_key = EnvOrFileKey

\* C20: the API key follows environment > configuration file > secure store >
\* default: the key of the secure store is used only when neither the
\* environment nor the configuration file supplies one.
C20_StoreKeyLast ==
    FromConfig =>
        /\ cfg.env["OWM_API_KEY"] # Absent
              => cfg.config.api_key = cfg.env["OWM_API_KEY"]
        /\ (cfg.env["OWM_API_KEY"] = Absent /\ cfg.yaml["OWM_API_KEY"] = Absent
            /\ StoreHoldsKey)
              => cfg.config.api_key = cfg.store.key

----------------------------------------------------------------------------
(* SecureConfig: the credential store on top of the OS keyring *)

\* the service vars of the weather services, untouched by the steps below
serviceVars == <<now, cache_ttl, cache_persist, file, svc, inst, chain, links,
                 session, pc, call, ncalls, inserted, op, sessions>>

\* exceptions of the tuple in the except clause of _check_keyring_availability
ProbeCaught == {"KeyringError", "PermissionError", "OSError", "ImportError"}

\* results of one keyring call: it returns ("ok") or it raises an exception
\* of the tuple or, standing for every other Exception, RuntimeError
StepResults == {"ok", "RuntimeError"} \cup ProbeCaught

\* the behaviours of the OS keyring during the probe; read is what
\* keyring.get_password returns for the probe entry when it returns
Probes ==
    [set : StepResults, get : StepResults, delete : StepResults,
     read : {Str("test_value"), Str("other"), None}]

\* the first probe step that raises, "ok" if none does
ProbeRaised(probe) ==
    IF probe.set # "ok" THEN probe.set
    ELSE IF probe.get # "ok" THEN probe.get
    ELSE probe.delete

\* SecureConfig._check_keyring_availability: set, get and delete the probe
\* entry; an exception of the tuple gives False, any other one propagates
CheckKeyringAvailability(probe) ==
    LET e == ProbeRaised(probe)
    IN  IF e = "ok"
        THEN [raised |-> "none", available |-> Bool(probe.read = Str("test_value"))]
        ELSE IF e \in ProbeCaught
        THEN [raised |-> "none", available |-> Bool(FALSE)]
        ELSE [raised |-> e, available |-> Absent]

\* keys handed to store_api_key
ApiKeys == {Str(""), Str("k1"), Str("k2")}

\* before SecureConfig() runs: the keyring behaviour it will meet
KeyringInputs ==
    [stage : {"start"}, probe : Probes, available : {Absent}, raised : {"none"},
     stored : {None, Str("k1")},
     last : {[name |-> "none", raised |-> "none", value |-> None]}]

\* SecureConfig.__init__
NewSecureConfig ==
    /\ keyring.stage = "start"
    /\ LET r == CheckKeyringAvailability(keyring.probe)
       IN  keyring' = [keyring EXCEPT
                         !.stage = IF r.raised = "none" THEN "built" ELSE "failed",
                         !.available = r.available,
                         !.raised = r.raised]
    /\ UNCHANGED <<serviceVars, fetched, cmd, tasks, loc, cfg>>

\* SecureConfig.store_api_key(api_key); result is what keyring.set_password does
StoreApiKey(api_key, result) ==
    /\ keyring.stage = "built"
    /\ LET raised == IF ~Truthy(api_key) THEN "ValueError"
                     ELSE IF keyring.available = Bool(FALSE) THEN "KeyringUnavailableError"
                     ELSE IF result # "ok" THEN "SecurityError"
                     ELSE "none"
       IN  keyring' = [keyring EXCEPT
                         !.stored = IF raised = "none" THEN api_key ELSE @,
                         !.last = [name |-> "store", raised |-> raised, value |-> None]]
    /\ UNCHANGED <<serviceVars, fetched, cmd, tasks, loc, cfg>>

\* what get_api_key and delete_api_key raise: the unavailable keyring first,
\* then the backend exceptions of the tuple wrapped, any other one as it is
BackendRaised(result) ==
    IF keyring.available = Bool(FALSE) THEN "KeyringUnavailableError"
    ELSE IF result \in {"KeyringError", "PermissionError", "OSError"} THEN "SecurityError"
    ELSE IF result # "ok" THEN result
    ELSE "none"

\* SecureConfig.get_api_key(); result is what keyring.get_password does
SecureGetApiKey(result) ==
    /\ keyring.stage = "built"
    /\ LET raised == BackendRaised(result)
       IN  keyring' = [keyring EXCEPT
                         !.last = [name |-> "get", raised |-> raised,
                                   value |-> IF raised = "none" THEN keyring.stored
                                             ELSE None]]
    /\ UNCHANGED <<serviceVars, fetched, cmd, tasks, loc, cfg>>

\* SecureConfig.delete_api_key(); result is what keyring.delete_password does
DeleteApiKey(result) ==
    /\ keyring.stage = "built"
    /\ LET raised == BackendRaised(result)
       IN  keyring' = [keyring EXCEPT
                         !.stored = IF raised = "none" THEN None ELSE @,
                         !.last = [name |-> "delete", raised |-> raised, value |-> None]]
    /\ UNCHANGED <<serviceVars, fetched, cmd, tasks, loc, cfg>>

\* a credential store is constructed and used; no service, no configuration
InitKeyring ==
    /\ now = 0
    /\ cache_ttl = TTL
    /\ cache_persist = FALSE
    /\ file = MissingFile
    /\ svc = "none"
    /\ inst = 0
    /\ chain = <<>>
    /\ links = <<>>
    /\ session = "none"
    /\ pc = "idle"
    /\ call = IdleCall
    /\ ncalls = 0
    /\ inserted = NeverInserted
    /\ op = Op("init", "none", "none")
    /\ sessions = NoSessions
    /\ cfg = NoConfig
    /\ keyring \in KeyringInputs
    /\ loc = NoLocation
    /\ tasks = NoTasks
    /\ cmd = NoCommand
    /\ fetched = NotTracked

NextKeyring ==
    \/ NewSecureConfig
    \/ \E k \in ApiKeys, r \in StepResults : StoreApiKey(k, r)
    \/ \E r \in StepResults : SecureGetApiKey(r)
    \/ \E r \in StepResults : DeleteApiKey(r)

SpecKeyring == InitKeyring /\ [][NextKeyring]_vars

\* C21: constructing the credential store never raises, and a probe step
\* that raises any exception gives is_keyring_available() = false
C21_ConstructNeverRaises ==
    keyring.stage \in {"built", "failed"} =>
        /\ keyring.raised = "none"
        /\ (ProbeRaised(keyring.probe) # "ok" => keyring.available = Bool(FALSE))

----------------------------------------------------------------------------
(* Locations: LocationService, the coordinate test of the fetch client and *)
(* the places where the commands take a location from the user             *)

\* the character of str at position i
At(str, i) == SubSeq(str, i, i)

\* the characters of a string
CharsOf(str) == {At(str, i) : i \in 1..Len(str)}

Digits == CharsOf("0123456789")
\* the characters str.strip() removes and \s matches, among those of the model
Whitespace == {" "}

\* str.strip()
RECURSIVE StrStrip(_)
StrStrip(str) ==
    IF str = "" THEN str
    ELSE IF Head(str) \in Whitespace THEN StrStrip(Tail(str))
    ELSE IF At(str, Len(str)) \in Whitespace THEN StrStrip(SubSeq(str, 1, Len(str) - 1))
    ELSE str

\* str.split(sep): the list of the parts between the separators
RECURSIVE StrSplit(_, _)
StrSplit(str, sep) ==
    IF sep \in CharsOf(str)
    THEN LET i == CHOOSE j \in 1..Len(str) :
                    At(str, j) = sep /\ \A k \in 1..(j - 1) : At(str, k) # sep
         IN  <<SubSeq(str, 1, i - 1)>> \o StrSplit(SubSeq(str, i + 1, Len(str)), sep)
    ELSE <<str>>

\* LocationService._is_coordinate_format: re.match of coord_pattern on the
\* stripped string. A piece of the pattern maps the set P of positions a
\* match can have reached to the positions it can reach next: Step is one
\* character of class C, Star is C*, Fraction is (\.C+)?
IsCoordinateFormat(location) ==
    LET str == StrStrip(location)
        Step(P, C) == {p + 1 : p \in {q \in P : q <= Len(str) /\ At(str, q) \in C}}
        RECURSIVE Star(_, _)
        Star(P, C) == LET Q == P \cup Step(P, C)
                      IN  IF Q = P THEN P ELSE Star(Q, C)
        Fraction(P, C) == P \cup Star(Step(Step(P, {"."}), C), C)
        sign(P) == P \cup Step(P, {"-", "+"})
        \* [1-8]?\d(\.\d+)?
        lat1(P) == Fraction(Step(P \cup Step(P, CharsOf("12345678")), Digits), Digits)
        \* 90(\.0+)?
        lat2(P) == Fraction(Step(Step(P, {"9"}), {"0"}), {"0"})
        \* 180(\.0+)?
        lon1(P) == Fraction(Step(Step(Step(P, {"1"}), {"8"}), {"0"}), {"0"})
        \* ((1[0-7]\d)|([1-9]?\d))(\.\d+)?
        lon2(P) == Fraction(Step(Step(Step(P, {"1"}), CharsOf("01234567")), Digits)
                            \cup Step(P \cup Step(P, CharsOf("123456789")), Digits),
                            Digits)
        lat == LET P == sign({1}) IN lat1(P) \cup lat2(P)
        sep == Star(Step(lat, {","}), Whitespace)
        lon == LET P == sign(sep) IN lon1(P) \cup lon2(P)
    IN  (Len(str) + 1) \in lon

\* LocationService._is_city_country_format
IsCityCountryFormat(location) ==
    LET parts == StrSplit(StrStrip(location), ",")
    IN  /\ Len(parts) = 2
        /\ StrStrip(parts[1]) # ""
        /\ StrStrip(parts[2]) # ""
        /\ Len(StrStrip(parts[2])) = 2

\* LocationService.validate_location_format
ValidateLocationFormat(location) ==
    IsCoordinateFormat(location) \/ IsCityCountryFormat(location)

\* LocationService.normalize_location
NormalizeLocation(location) ==
    LET str == StrStrip(location)
    IN  IF str = "" \/ ~ValidateLocationFormat(str)
        THEN [raised |-> "InvalidLocationError", value |-> ""]
        ELSE [raised |-> "none", value |-> str]

\* float(str) on the strings of the model: surrounding whitespace, a sign,
\* then nan, inf or a decimal numeral; anything else is a ValueError. The
\* value is kept exact: the integer part and the digits after the point.
ParseFloat(text) ==
    LET str == StrStrip(text)
        neg == str # "" /\ Head(str) = "-"
        body == IF str # "" /\ Head(str) \in {"-", "+"} THEN Tail(str) ELSE str
        parts == StrSplit(body, ".")
        digits(x) == CharsOf(x) \subseteq Digits
        RECURSIVE IntValue(_)
        IntValue(d) ==
            IF d = "" THEN 0
            ELSE 10 * IntValue(SubSeq(d, 1, Len(d) - 1))
                 + (CHOOSE n \in 0..9 : At("0123456789", n + 1) = At(d, Len(d)))
        bad == [ok |-> FALSE, kind |-> "ValueError", neg |-> FALSE, int |-> 0, frac |-> ""]
    IN  IF body \in {"nan", "inf"}
        THEN [ok |-> TRUE, kind |-> body, neg |-> neg, int |-> 0, frac |-> ""]
        ELSE IF Len(parts) = 1 /\ body # "" /\ digits(body)
        THEN [ok |-> TRUE, kind |-> "num", neg |-> neg, int |-> IntValue(body), frac |-> ""]
        ELSE IF /\ Len(parts) = 2
                /\ digits(parts[1]) /\ digits(parts[2])
                /\ parts[1] \o parts[2] # ""
        THEN [ok |-> TRUE, kind |-> "num", neg |-> neg, int |-> IntValue(parts[1]),
              frac |-> parts[2]]
        ELSE bad

\* -bound <= x <= bound for a parsed float x; every comparison with nan is false
WithinAbs(x, bound) ==
    /\ x.kind = "num"
    /\ \/ x.int < bound
       \/ x.int = bound /\ CharsOf(x.frac) \subseteq {"0"}

\* AsyncWeatherService._is_coordinates
IsCoordinates(location) ==
    LET parts == StrSplit(location, ",")
    IN  /\ Len(parts) = 2
        /\ ParseFloat(parts[1]).ok /\ ParseFloat(parts[2]).ok
        /\ WithinAbs(ParseFloat(parts[1]), 90)
        /\ WithinAbs(ParseFloat(parts[2]), 180)

\* repr of a parsed float, as the f-string of weather_command writes it:
\* no leading zeros, no trailing zeros after the point, at least one digit there
FloatRepr(x) ==
    LET RECURSIVE trim(_)
        trim(d) == IF d # "" /\ At(d, Len(d)) = "0"
                   THEN trim(SubSeq(d, 1, Len(d) - 1)) ELSE d
        frac == trim(x.frac)
        RECURSIVE IntStr(_)
        IntStr(n) == IF n < 10 THEN At("0123456789", n + 1)
                     ELSE IntStr(n \div 10) \o At("0123456789", (n % 10) + 1)
    IN  (IF x.neg THEN "-" ELSE "") \o IntStr(x.int) \o "."
        \o (IF frac = "" THEN "0" ELSE frac)

\* weather_command, --coordinates: the value split at the comma, both parts
\* parsed and range-checked; every ValueError becomes click.BadParameter
CheckCoordinatesOption(coordinates) ==
    LET parts == StrSplit(coordinates, ",")
        lat == ParseFloat(parts[1])
        lon == ParseFloat(parts[2])
    IN  IF /\ Len(parts) = 2
           /\ lat.ok /\ lon.ok
           /\ WithinAbs(lat, 90) /\ WithinAbs(lon, 180)
        THEN [raised |-> "none", location |-> FloatRepr(lat) \o "," \o FloatRepr(lon)]
        ELSE [raised |-> "BadParameter", location |-> ""]

\* _fetch_weather_data: the async service is used when configured or when the
\* location is two floats; the service is built and get_weather is called
FetchWeatherData(use_async, location) ==
    LET parts == StrSplit(location, ",")
        is_coordinates == /\ Len(parts) = 2
                          /\ ParseFloat(parts[1]).ok /\ ParseFloat(parts[2]).ok
    IN  [outcome |-> "get_weather",
         service |-> IF use_async \/ is_coordinates THEN "async" ELSE "sync",
         location |-> location]

\* the command stopped with an error before a service was built
Stopped(error) == [outcome |-> error, service |-> "none", location |-> ""]

\* the strings a user enters: one part, two parts around a comma, three parts
Locations ==
    LET first == {"0", "45", "90", "90.0", "90.5", "91", "-91", "100", "+45.5",
                  "London", "", " ", "nan", " 12"}
        second == {"0", "10", "-5", "180", "180.0", "180.5", "181", "-181", "179.9",
                   "GB", "G", "GBR", "12", "1!", "", " GB", "nan"}
    IN  first
        \cup {a \o "," \o b : a \in first, b \in second}
        \cup {a \o ",GB,extra" : a \in {"London", "45"}}

\* a location is entered and nothing has looked at it yet
LocationInputs ==
    [input : Locations, use_async : BOOLEAN, valid : {Absent}, normalized : {Absent},
     coords : {Absent}, run : {Absent}]

\* LocationService.validate_location_format(location)
CallValidateLocationFormat ==
    /\ loc.valid = Absent
    /\ loc' = [loc EXCEPT !.valid = Bool(ValidateLocationFormat(loc.input))]
    /\ UNCHANGED <<serviceVars, fetched, cmd, tasks, cfg, keyring>>

\* LocationService.normalize_location(location)
CallNormalizeLocation ==
    /\ loc.normalized = Absent
    /\ loc' = [loc EXCEPT !.normalized = NormalizeLocation(loc.input)]
    /\ UNCHANGED <<serviceVars, fetched, cmd, tasks, cfg, keyring>>

\* AsyncWeatherService._is_coordinates(location)
CallIsCoordinates ==
    /\ loc.coords = Absent
    /\ loc' = [loc EXCEPT !.coords = Bool(IsCoordinates(loc.input))]
    /\ UNCHANGED <<serviceVars, fetched, cmd, tasks, cfg, keyring>>

\* weather_command with the location given by one option, "city" or
\* "coordinates", up to the call of get_weather
WeatherCommand(option) ==
    /\ loc.run = Absent
    /\ loc' = [loc EXCEPT !.run =
                 IF loc.input = "" THEN Stopped("UsageError")
                 ELSE IF option = "city"
                 THEN FetchWeatherData(loc.use_async, StrStrip(loc.input))
                 ELSE LET c == CheckCoordinatesOption(loc.input)
                      IN  IF c.raised # "none" THEN Stopped(c.raised)
                          ELSE FetchWeatherData(loc.use_async, c.location)]
    /\ UNCHANGED <<serviceVars, fetched, cmd, tasks, cfg, keyring>>

\* UIService: one answer to the prompt of _prompt_location; a rejected answer
\* is reported and asked again, an accepted one goes to get_weather
PromptLocation ==
    /\ loc.run = Absent
    /\ loc' = [loc EXCEPT !.run =
                 LET n == NormalizeLocation(loc.input)
                 IN  IF StrStrip(loc.input) = "" \/ n.raised # "none"
                     THEN Stopped("asked again")
                     ELSE [outcome |-> "get_weather",
                           service |-> IF loc.use_async THEN "async" ELSE "sync",
                           location |-> n.value]]
    /\ UNCHANGED <<serviceVars, fetched, cmd, tasks, cfg, keyring>>

\* a location is entered; no service, no configuration, no credential store
InitLocation ==
    /\ now = 0
    /\ cache_ttl = TTL
    /\ cache_persist = FALSE
    /\ file = MissingFile
    /\ svc = "none"
    /\ inst = 0
    /\ chain = <<>>
    /\ links = <<>>
    /\ session = "none"
    /\ pc = "idle"
    /\ call = IdleCall
    /\ ncalls = 0
    /\ inserted = NeverInserted
    /\ op = Op("init", "none", "none")
    /\ sessions = NoSessions
    /\ cfg = NoConfig
    /\ keyring = NoKeyring
    /\ loc \in LocationInputs
    /\ tasks = NoTasks
    /\ cmd = NoCommand
    /\ fetched = NotTracked

NextLocation ==
    \/ CallValidateLocationFormat
    \/ CallNormalizeLocation
    \/ CallIsCoordinates
    \/ \E option \in {"city", "coordinates"} : WeatherCommand(option)
    \/ PromptLocation

SpecLocation == InitLocation /\ [][NextLocation]_vars

----------------------------------------------------------------------------
(* Properties of the location handling *)

\* the letters a country code is written with
Letters == CharsOf("ABCDEFGHIJKLMNOPQRSTUVWXYZabcdefghijklmnopqrstuvwxyz")

\* "City,CC": one comma, a non-empty city, a country code of exactly 2 letters
GrammarCityCountry(str) ==
    LET parts == StrSplit(StrStrip(str), ",")
    IN  /\ Len(parts) = 2
        /\ StrStrip(parts[1]) # ""
        /\ Len(StrStrip(parts[2])) = 2
        /\ CharsOf(StrStrip(parts[2])) \subseteq Letters

\* "a,b" with a and b numbers
NumberPair(str) ==
    LET parts == StrSplit(StrStrip(str), ",")
    IN  /\ Len(parts) = 2
        /\ ParseFloat(parts[1]).kind = "num"
        /\ ParseFloat(parts[2]).kind = "num"

\* "lat,lon" with lat in [-90,90] and lon in [-180,180]
GrammarLatLon(str) ==
    LET parts == StrSplit(StrStrip(str), ",")
    IN  /\ NumberPair(str)
        /\ WithinAbs(ParseFloat(parts[1]), 90)
        /\ WithinAbs(ParseFloat(parts[2]), 180)

\* the accepted location grammar
Grammar(str) == GrammarCityCountry(str) \/ GrammarLatLon(str)

\* C22: validate_location_format(s) is true exactly when s is "City,CC" with
\* a non-empty city and a 2-letter country code or "lat,lon" within range
C22_ValidateExactlyGrammar ==
    loc.valid # Absent => (loc.valid = Bool(TRUE) <=> Grammar(loc.input))

\* C23: a pair of numbers with the latitude or the longitude out of range is
\* rejected by validate_location_format, by normalize_location and by
\* _is_coordinates
C23_OutOfRangeRejectedByBoth ==
    (NumberPair(loc.input) /\ ~GrammarLatLon(loc.input)) =>
        /\ loc.valid # Absent => loc.valid = Bool(FALSE)
        /\ loc.normalized # Absent => loc.normalized.raised = "InvalidLocationError"
        /\ loc.coords # Absent => loc.coords = Bool(FALSE)

\* C24: at the prompt and in the one-shot command, a location outside the
\* accepted grammar stops the command before get_weather, which issues the
\* provider request, is called
C24_InvalidLocationStopsBeforeRequest ==
    (loc.run # Absent /\ ~Grammar(loc.input)) => loc.run.outcome # "get_weather"

----------------------------------------------------------------------------
(* Properties of the parsed record *)

\* the numeric fields a payload may omit, with the payload item each is read from
OptionalNumeric ==
    {<<"wind_speed", "speed">>, <<"wind_direction_deg", "deg">>,
     <<"precipitation_probability", "pop">>, <<"clouds", "clouds">>,
     <<"visibility_distance", "visibility">>}

\* C25: in the record parsed from a provider payload, every optional numeric
\* field the payload omits is None, never a default of 0
C25_OmittedFieldsAreNone ==
    [][\A status \in AsyncOutcomes \cup SyncOutcomes, data \in Payloads :
          (GetWeatherFetched(status, data) /\ op'.err = "none") =>
              \A fk \in OptionalNumeric :
                  data[fk[2]] = Absent => op'.value[fk[1]] = None]_vars

----------------------------------------------------------------------------
(* AsyncWeatherService.get_weather called from concurrent tasks of one     *)
(* event loop: a task runs without interruption up to the await of the     *)
(* provider request and from the answer to its return                      *)

\* get_weather of task i up to the await: the key, the membership test, and
\* on a miss the session and the request
TaskStart(i, location, units) ==
    /\ svc = "async"
    /\ tasks[i].pc = "idle"
    /\ \A j \in 1..MaxTasks : tasks[j].pc # "hit"
    /\ LET cache_key == CacheKey(location, units)
           hit == Contains(Cache, cache_key, now)
       IN  /\ tasks' = [tasks EXCEPT ![i] =
                          [pc |-> IF hit THEN "hit" ELSE "fetch", location |-> location,
                           units |-> units, key |-> cache_key, at |-> now, err |-> "none"]]
           /\ session' = IF hit THEN session ELSE EnsureSession(session, sessions).session
           /\ sessions' = IF hit THEN sessions ELSE EnsureSession(session, sessions).sessions
    /\ UNCHANGED <<now, cache_ttl, cache_persist, fetched, cmd, file, svc, inst, chain,
                   links, pc, call, ncalls, inserted, op, cfg, keyring, loc>>

\* get_weather of task i on a hit: return self.cache[cache_key]; no other
\* task runs between the membership test and this read, the clock does
TaskReturnCached(i) ==
    /\ tasks[i].pc = "hit"
    /\ LET r == GetItem(Cache, tasks[i].key, now)
       IN  /\ chain' = r.cache.chain
           /\ links' = r.cache.links
           /\ tasks' = [tasks EXCEPT ![i].pc = "done",
                                     ![i].err = IF r.found THEN "none" ELSE "KeyError"]
    /\ UNCHANGED <<now, cache_ttl, cache_persist, fetched, cmd, file, svc, inst,
                   session, pc, call, ncalls, inserted, op, sessions, cfg, keyring,
                   loc>>

\* get_weather of task i resumed with the provider's answer: parse and
\* cache, or raise
TaskFetched(i, status, data) ==
    /\ tasks[i].pc = "fetch"
    /\ \A j \in 1..MaxTasks : tasks[j].pc # "hit"
    /\ status \in AsyncOutcomes
    /\ LET e == AsyncFetchError(status)
           err == IF e.outcome = "ok" /\ AsyncParseFails(data)
                  THEN "DataParsingError" ELSE e.outcome
           value == AsyncParseWeatherData(tasks[i].location, data, tasks[i].units)
           c == StoreFetched(Cache, err, tasks[i].key, value, now, cache_ttl)
       IN  /\ chain' = c.chain
           /\ links' = c.links
           /\ inserted' = IF err = "ok" THEN [inserted EXCEPT ![tasks[i].key] = now]
                          ELSE inserted
           /\ fetched' = IF err = "ok" THEN Fetched(fetched, tasks[i].key, now)
                         ELSE fetched
           /\ tasks' = [tasks EXCEPT ![i].pc = "done",
                                     ![i].err = IF err = "ok" THEN "none" ELSE err]
    /\ UNCHANGED <<now, cache_ttl, cache_persist, cmd, file, svc, inst, session, pc,
                   call, ncalls, op, sessions, cfg, keyring, loc>>

\* one async instance without persistence, its get_weather called by tasks
InitOverlap == Init /\ ~cache_persist

NextOverlap ==
    \/ Tick
    \/ Construct("async")
    \/ \E i \in 1..MaxTasks, r \in Requests : TaskStart(i, r[1], r[2])
    \/ \E i \in 1..MaxTasks : TaskReturnCached(i)
    \/ \E i \in 1..MaxTasks, status \in {"200", "500", "timeout"},
          data \in {PayloadFull, PayloadSparse} : TaskFetched(i, status, data)

SpecOverlap == InitOverlap /\ [][NextOverlap]_vars

\* C26: for one instance and one cache key at most one provider request is
\* issued per TTL window, also when two calls for the key overlap at the
\* network wait: no two requests for one key, issued less than a TTL apart,
\* are in flight together
C26_OneRequestPerKeyAndWindow ==
    \A i, j \in 1..MaxTasks :
        (/\ i # j
         /\ tasks[i].pc = "fetch" /\ tasks[j].pc = "fetch"
         /\ tasks[i].key = tasks[j].key
         /\ tasks[i].at <= tasks[j].at)
        => tasks[j].at - tasks[i].at >= cache_ttl

----------------------------------------------------------------------------
(* The owners of an AsyncWeatherService: the one-shot weather command      *)
(* (async_fetch in _fetch_weather_data) and the interactive main_async     *)

\* a command starts: "oneshot" is async_fetch, "interactive" is main_async
\* with an async UIService; it remembers the cache file it found
CommandBegin(kind) ==
    /\ cmd.stage = "none"
    /\ svc = "none"
    /\ inst = 0
    /\ cmd' = [kind |-> kind, stage |-> "running", file0 |-> file]
    /\ UNCHANGED <<serviceVars, fetched, cfg, keyring, loc, tasks>>

\* the constructor of the service raised: the exception leaves the command
\* and no instance exists
CommandAbort ==
    /\ cmd.stage = "running"
    /\ svc = "none"
    /\ inst = 1
    /\ cmd' = [cmd EXCEPT !.stage = "returned"]
    /\ UNCHANGED <<serviceVars, fetched, cfg, keyring, loc, tasks>>

\* async_fetch: finally: await service.close(), after get_weather returned or
\* raised; then the command returns
OneShotExit(fault) ==
    /\ cmd.stage = "running"
    /\ cmd.kind = "oneshot"
    /\ svc = "async"
    /\ pc = "idle"
    /\ ncalls = 1
    /\ session' = CloseSession(session, sessions).session
    /\ sessions' = CloseSession(session, sessions).sessions
    /\ LET r == IF cache_persist
                THEN SaveCacheToDisk(Cache, file, now, fault)
                ELSE [cache |-> Cache, file |-> file, err |-> "none", swallowed |-> "none"]
       IN  /\ chain' = r.cache.chain
           /\ links' = r.cache.links
           /\ file' = r.file
           /\ op' = Op("close", r.err, r.swallowed)
    /\ cmd' = [cmd EXCEPT !.stage = "returned"]
    /\ UNCHANGED <<now, cache_ttl, cache_persist, fetched, svc, inst, pc, call, ncalls,
                   inserted, cfg, keyring, loc, tasks>>

\* main_async: the loop of run_async ended or an exception left it; finally:
\* ui.weather_service.save_cache(), then main_async returns
MainAsyncExit(fault) ==
    /\ cmd.stage = "running"
    /\ cmd.kind = "interactive"
    /\ svc = "async"
    /\ pc = "idle"
    /\ LET r == IF cache_persist
                THEN SaveCacheToDisk(Cache, file, now, fault)
                ELSE [cache |-> Cache, file |-> file, err |-> "none", swallowed |-> "none"]
       IN  /\ chain' = r.cache.chain
           /\ links' = r.cache.links
           /\ file' = r.file
           /\ op' = Op("save_cache", r.err, r.swallowed)
    /\ cmd' = [cmd EXCEPT !.stage = "returned"]
    /\ UNCHANGED <<now, cache_ttl, cache_persist, fetched, svc, inst, session, pc, call,
                   ncalls, inserted, sessions, cfg, keyring, loc, tasks>>

\* a command from its start to its return: it builds one async service, the
\* one-shot command calls get_weather once, the interactive one repeatedly
NextCommand ==
    \/ Tick
    \/ \E kind \in {"oneshot", "interactive"} : CommandBegin(kind)
    \/ cmd.stage = "running" /\ inst = 0 /\ Construct("async")
    \/ /\ cmd.stage = "running"
       /\ cmd.kind = "oneshot" => ncalls = 0
       /\ \E r \in Requests : GetWeatherStart(r[1], r[2])
    \/ cmd.stage = "running" /\ GetWeatherReturnCached
    \/ /\ cmd.stage = "running"
       /\ \E status \in {"200", "404", "timeout"}, data \in {PayloadFull, PayloadSparse} :
             GetWeatherFetched(status, data)
    \/ cmd.stage = "running" /\ GetWeatherCancelled
    \/ CommandAbort
    \/ \E fault \in Faults : OneShotExit(fault)
    \/ \E fault \in Faults : MainAsyncExit(fault)

SpecCommand == Init /\ [][NextCommand]_vars

\* C27: every AsyncWeatherService the application creates has close() called
\* before the owning command returns, in the one-shot command and in
\* main_async: no command returns with a session still open
C27_NoSessionOpenAtReturn ==
    cmd.stage = "returned" => (session # "open" /\ sessions.open = 0)

----------------------------------------------------------------------------
(* Properties of the cache read *)

\* C28: when the membership test at the start of get_weather succeeds, the
\* call returns the cached record; it does not fail with KeyError when the
\* TTL of the entry elapses between the test and the read
C28_HitNeverRaisesKeyError ==
    [][GetWeatherReturnCached => (op'.err = "none" /\ op'.value # NoRecord)]_vars

----------------------------------------------------------------------------
(* Fetch, save, restart and load: the age of the records served from the   *)
(* cache, with the history of the provider fetches                         *)

\* persistence on, no file yet, positive TTL: every record that reaches the
\* file was fetched in this behaviour
InitRestart ==
    /\ now = 0
    /\ cache_ttl = TTL
    /\ cache_persist = TRUE
    /\ file = MissingFile
    /\ svc = "none"
    /\ inst = 0
    /\ chain = <<>>
    /\ links = <<>>
    /\ session = "none"
    /\ pc = "idle"
    /\ call = IdleCall
    /\ ncalls = 0
    /\ inserted = NeverInserted
    /\ op = Op("init", "none", "none")
    /\ sessions = NoSessions
    /\ cfg = NoConfig
    /\ keyring = NoKeyring
    /\ loc = NoLocation
    /\ tasks = NoTasks
    /\ cmd = NoCommand
    /\ fetched = NeverInserted

\* processes that start, fetch, save and end, one after the other
NextRestart ==
    \/ Tick
    \/ \E variant \in {"sync", "async"} : Construct(variant)
    \/ \E r \in Requests : GetWeatherStart(r[1], r[2])
    \/ GetWeatherReturnCached
    \/ \E status \in {"200", "404", "NotFoundError"} : GetWeatherFetched(status, PayloadFull)
    \/ SaveCache("none")
    \/ Close("none")
    \/ Del("none")

SpecRestart == InitRestart /\ [][NextRestart]_vars

\* C29: every record get_weather returns from the cache was obtained from
\* the provider less than CACHE_TTL before, across fetch, save, restart and
\* load: loading a snapshot does not extend the lifetime of an entry
C29_CachedRecordYoungerThanTtl ==
    [][(GetWeatherReturnCached /\ op'.err = "none") =>
          (fetched[call.key] >= 0 /\ now - fetched[call.key] < cache_ttl)]_vars

----------------------------------------------------------------------------
(* Properties of the one-shot command without cache *)

\* C30: the one-shot weather command run with --no-cache (CACHE_TTL 0) and
\* persistence enabled leaves the entries of the cache file as it found
\* them, when no write to the disk failed: it neither removes nor replaces
\* entries persisted by earlier runs
C30_NoCacheRunKeepsFile ==
    (/\ cmd.kind = "oneshot"
     /\ cmd.stage = "returned"
     /\ cache_ttl = 0
     /\ cache_persist
     /\ op.swallowed = "none")
    => file.entries = cmd.file0.entries

====
